---- MODULE Spec2Model ----
(***************************************************************************)
(* The reduction algebra of gpjax/rkhs/reduce/repetitions.py (Repeat,      *)
(* TileView, SparseReduce, sum_from_unique, Kmer) and the RKHS-vector      *)
(* algebra of gpjax/rkhs/vector.py.                                        *)
(*                                                                         *)
(* Every operation is a pure function of its receiver and its argument.    *)
(* The state is one call: the receiver `self`, the argument `inp`, the     *)
(* operation that ran (`pc`) and what it returned or raised (`ret`).       *)
(*                                                                         *)
(* An n-dimensional array is [shape, data] with `data` the row-major       *)
(* (C-order) contents, as in numpy.  Floating-point numbers are modelled   *)
(* as exact rationals <<numerator, denominator>> in lowest terms, so       *)
(* "equal within floating-point tolerance" becomes equality.               *)
(***************************************************************************)
EXTENDS Integers, Sequences, FiniteSets, TLC

VARIABLES pc, self, inp, ret

vars == <<pc, self, inp, ret>>

(***************************************************************************)
(* Bounds of the explored inputs.                                          *)
(***************************************************************************)
\* Repeat / TileView: matrices of 0..MaxRows rows, 1..MaxCols columns, with
\* entries 0..MaxVal; Repeat(2..MaxTimes); TileView(2..MaxResultLen).
MaxRows == 2
MaxCols == 2
MaxVal == 1
MaxTimes == 3
MaxResultLen == 4
\* SparseReduce: Gram matrices of 1..MaxGramRows rows and 1..MaxGramCols
\* columns; index blocks whose cells (a zero-width row counts as one cell)
\* number at most MaxIdxCells over the whole list of blocks.
MaxGramRows == 2
MaxGramCols == 2
MaxIdxCells == 3
\* sum_from_unique: arrays of 1..MaxLen entries with values 0..MaxUVal.
MaxLen == 5
MaxUVal == 2
\* Kmer: k in 0..MaxK and seq_length in 0..MaxSeq.
MaxK == 3
MaxSeq == 4
\* RKHS vectors: 1..MaxPts inspection points, kernels 1..MaxKernels.
MaxPts == 2
MaxKernels == 2

(***************************************************************************)
(* Numbers.                                                                *)
(***************************************************************************)
Abs(x) == IF x < 0 THEN -x ELSE x

RECURSIVE Gcd(_, _)
Gcd(a, b) == IF b = 0 THEN a ELSE Gcd(b, a % b)

\* The rational n/d (d > 0) in lowest terms.
Rat(n, d) == LET g == Gcd(Abs(n), d) IN <<n \div g, d \div g>>

FromInt(n) == <<n, 1>>

RAdd(p, q) == Rat(p[1] * q[2] + q[1] * p[2], p[2] * q[2])

RMul(p, q) == Rat(p[1] * q[1], p[2] * q[2])

\* p / k for an integer k > 0.
RDiv(p, k) == Rat(p[1], p[2] * k)

RECURSIVE RSum(_)
RSum(s) == IF s = <<>> THEN FromInt(0) ELSE RAdd(s[1], RSum(Tail(s)))

RECURSIVE Prod(_)
Prod(s) == IF s = <<>> THEN 1 ELSE s[1] * Prod(Tail(s))

(***************************************************************************)
(* Arrays and outcomes.                                                    *)
(***************************************************************************)
Arr(shape, data) == [shape |-> shape, data |-> data]

\* What a call does: returns an array, an integer or a reduction, or raises.
Array(a) == [kind |-> "array", val |-> a]

Int_(n) == [kind |-> "int", val |-> n]

Reduction(r) == [kind |-> "reduce", val |-> r]

Raise(e) == [kind |-> "raise", exc |-> e]

None == [kind |-> "None"]

\* isinstance(x, AbstractReduce)
IsReduce(x) == "type" \in DOMAIN x

\* inp.ravel(): the same data, one axis.
ravel(a) == Arr(<<Len(a.data)>>, a.data)

\* np.broadcast_to(v, (reps, v.size)) of a 1-d v: reps rows, each v.
broadcast_to(v, reps) ==
    Arr(<<reps, Len(v.data)>>,
        [k \in 1..(reps * Len(v.data)) |-> v.data[((k - 1) % Len(v.data)) + 1]])

\* a.reshape(shape): the data is kept, the sizes must agree.
reshape(a, shape) ==
    IF Prod(shape) = Len(a.data) THEN Array(Arr(shape, a.data))
    ELSE Raise("TypeError")

\* Row i (0-based) of a 2-d array, as a sequence.
Row(a, i) == SubSeq(a.data, i * a.shape[2] + 1, (i + 1) * a.shape[2])

\* np.tile in place of np.repeat: whole copies of `a`, one after the other.
np_repeat_tiled(a, times) ==
    Arr(<<a.shape[1] * times>> \o Tail(a.shape),
        [k \in 1..(Len(a.data) * times) |-> a.data[((k - 1) % Len(a.data)) + 1]])

\* np.repeat(a, times, 0): every entry along axis 0 repeated `times` times in
\* place, so output entry i along axis 0 is input entry i // times.
np_repeat(a, times) ==
    LET w == Prod(Tail(a.shape))
        n == a.shape[1]
    IN  Arr(<<n * times>> \o Tail(a.shape),
            [k \in 1..(n * times * w) |->
                a.data[(((k - 1) \div w) \div times) * w + ((k - 1) % w) + 1]])

\* np.eye(n)
np_eye(n) ==
    Arr(<<n, n>>,
        [k \in 1..(n * n) |->
            IF (k - 1) \div n = (k - 1) % n THEN FromInt(1) ELSE FromInt(0)])

\* np.zeros((r, c))
np_zeros(r, c) == Arr(<<r, c>>, [k \in 1..(r * c) |-> FromInt(0)])

\* L @ M for 2-d arrays: the matrix product by which a linear map is applied.
np_matmul(L, M) ==
    IF L.shape[2] # M.shape[1] THEN Raise("TypeError")
    ELSE LET r == L.shape[1]
             m == L.shape[2]
             c == M.shape[2]
         IN  Array(Arr(<<r, c>>,
                 [k \in 1..(r * c) |->
                     RSum([j \in 1..m |->
                         RMul(L.data[((k - 1) \div c) * m + j],
                              M.data[(j - 1) * c + ((k - 1) % c) + 1])])]))

(***************************************************************************)
(* tile_view, Repeat, TileView.                                            *)
(***************************************************************************)
\* tile_view that repeats each row in place instead of tiling.
tile_view_in_place(a, reps) ==
    IF Len(a.shape) < 2 THEN Raise("IndexError")
    ELSE Array(Arr(<<reps * a.shape[1], a.shape[2]>>,
            [k \in 1..(reps * Len(a.data)) |->
                a.data[(((k - 1) \div a.shape[2]) \div reps) * a.shape[2]
                        + ((k - 1) % a.shape[2]) + 1]]))

\* tile_view(inp, reps): broadcast the flattened input to reps rows and
\* reshape to (reps * inp.shape[0], inp.shape[1]).
tile_view(a, reps) ==
    IF Len(a.shape) < 2 THEN Raise("IndexError")
    ELSE reshape(broadcast_to(ravel(a), reps), <<reps * a.shape[1], a.shape[2]>>)

ChainedReduce(rs) == [type |-> "ChainedReduce", reduces |-> rs]

\* Repeat(times) with __post_init__.
Repeat(times) ==
    IF times <= 1 THEN Raise("ValueError")
    ELSE Reduction([type |-> "Repeat", times |-> times])

Repeat_matmul(R, x) ==
    IF IsReduce(x) THEN Reduction(ChainedReduce(<<R, x>>))
    ELSE Array(np_repeat(x, R.times))

Repeat_new_len(R, original_len) == Int_(original_len * R.times)

\* TileView(result_len) with __post_init__.
TileView(result_len) ==
    IF result_len < 2 THEN Raise("ValueError")
    ELSE Reduction([type |-> "TileView", result_len |-> result_len])

TileView_matmul(R, x) ==
    IF IsReduce(x) THEN Reduction(ChainedReduce(<<R, x>>))
    ELSE IF x.shape[1] = 0 THEN Raise("ZeroDivisionError")
    ELSE IF R.result_len % x.shape[1] # 0 THEN Raise("ValueError")
    ELSE tile_view(x, R.result_len \div x.shape[1])

TileView_linmap(R, inp_shape) ==
    IF inp_shape[1] = 0 THEN Raise("ZeroDivisionError")
    ELSE tile_view(np_eye(inp_shape[1]), R.result_len \div inp_shape[1])

TileView_new_len(R, original_len) == Int_(R.result_len)

(***************************************************************************)
(* SparseReduce.                                                           *)
(***************************************************************************)
\* np.max over the entries of the non-empty index blocks
MaxOf(S) == CHOOSE m \in S : \A x \in S : x <= m

\* SparseReduce(idcs, average, max_idx) with __post_init__: a max_idx of None
\* (here <<>>; <<m>> is a given m) is inferred as the largest index of the non-empty blocks, and inferring it
\* from no index at all fails.
SparseReduce(idcs, average, max_idx) ==
    LET max_list == {MaxOf({b.data[k] : k \in 1..Len(b.data)}) :
                        b \in {idcs[i] : i \in {j \in 1..Len(idcs) : Len(idcs[j].data) > 0}}}
    IN  IF max_idx = <<>> /\ max_list = {} THEN Raise("ValueError")
        ELSE Reduction([type |-> "SparseReduce",
                        idcs |-> idcs,
                        average |-> average,
                        max_idx |-> IF max_idx = <<>> THEN MaxOf(max_list)
                                    ELSE max_idx[1]])

\* reduce_block that sums whatever `average` says.
reduce_block_sum(average, idx, M) ==
    LET r == idx.shape[1]
        g == idx.shape[2]
        c == M.shape[2]
    IN  Arr(<<r, c>>,
            [k \in 1..(r * c) |->
                RSum([t \in 1..g |->
                    M.data[idx.data[((k - 1) \div c) * g + t] * c + ((k - 1) % c) + 1]])])

\* self._reduce(inp[list(idx.flatten()), :].reshape((-1, idx.shape[1], inp.shape[1])), 1):
\* output row i, column j is the mean (or sum) over t of
\* inp[idx[i, t], j].
reduce_block(average, idx, M) ==
    LET r == idx.shape[1]
        g == idx.shape[2]
        c == M.shape[2]
        total(i, j) == RSum([t \in 1..g |-> M.data[idx.data[i * g + t] * c + j + 1]])
    IN  Arr(<<r, c>>,
            [k \in 1..(r * c) |->
                IF average THEN RDiv(total((k - 1) \div c, (k - 1) % c), g)
                ELSE total((k - 1) \div c, (k - 1) % c)])

\* np.concatenate(rval, 0) of 2-d arrays with the same number of columns
RECURSIVE np_concatenate(_)
np_concatenate(as) ==
    IF Len(as) = 1 THEN as[1]
    ELSE LET rest == np_concatenate(Tail(as))
         IN  Arr(<<as[1].shape[1] + rest.shape[1], as[1].shape[2]>>,
                 as[1].data \o rest.data)

\* SparseReduce.__matmul__ has no branch for a reduction argument: len(inp)
\* is taken of whatever is passed, and a reduction has no len().
SparseReduce_matmul(R, x) ==
    IF IsReduce(x) THEN Raise("TypeError")
    ELSE IF R.max_idx + 1 > x.shape[1] THEN Raise("ValueError")
    ELSE IF Len(x.shape) # 2 THEN Raise("ValueError")
    ELSE Array(np_concatenate(
            [i \in 1..Len(R.idcs) |->
                IF R.idcs[i].shape[2] = 0
                THEN np_zeros(R.idcs[i].shape[1], x.shape[2])
                ELSE reduce_block(R.average, R.idcs[i], x)]))

SparseReduce_new_len(R, original_len) ==
    IF ~(R.max_idx + 1 <= original_len) THEN Raise("AssertionError")
    ELSE Int_(Len(R.idcs))

\* lin_map.at[(idx1, idx.flatten())].set(w) with
\* idx1 = np.repeat(np.arange(idx.shape[0]) + offset, idx.shape[1]):
\* every cell (offset + i, idx[i, t]) becomes w, whatever it held.
at_set(lin_map, idx, offset, w) ==
    LET g == idx.shape[2]
        n_in == lin_map.shape[2]
        hit(o, j) == \E t \in 1..Len(idx.data) :
                        /\ offset + ((t - 1) \div g) = o
                        /\ idx.data[t] = j
    IN  Arr(lin_map.shape,
            [k \in 1..Len(lin_map.data) |->
                IF hit((k - 1) \div n_in, (k - 1) % n_in) THEN w
                ELSE lin_map.data[k]])

\* The loop of SparseReduce.linmap from block i on.
RECURSIVE linmap_loop(_, _, _, _)
linmap_loop(R, i, offset, lin_map) ==
    IF i > Len(R.idcs) THEN lin_map
    ELSE linmap_loop(R, i + 1, offset + R.idcs[i].shape[1],
            IF R.idcs[i].shape[2] # 0
            THEN at_set(lin_map, R.idcs[i], offset,
                        IF R.average THEN Rat(1, R.idcs[i].shape[2]) ELSE FromInt(1))
            ELSE lin_map)

SparseReduce_linmap(R, inp_shape) ==
    LET n_in == R.max_idx + 1
        n_out == RSum([i \in 1..Len(R.idcs) |-> FromInt(R.idcs[i].shape[1])])[1]
    IN  IF inp_shape[1] # n_in THEN Raise("ValueError")
        ELSE Array(linmap_loop(R, 1, 0, np_zeros(n_out, n_in)))

(***************************************************************************)
(* SparseReduce.sum_from_unique.                                           *)
(***************************************************************************)
\* p < q for rationals
RLess(p, q) == p[1] * q[2] < q[1] * p[2]

RECURSIVE SortedSeq(_)
SortedSeq(S) ==
    IF S = {} THEN <<>>
    ELSE LET m == CHOOSE x \in S : \A y \in S : ~RLess(y, x)
         IN  <<m>> \o SortedSeq(S \ {m})

\* np.argwhere(input == v).flatten(): the positions (0-based, ascending) of v
np_argwhere(x, v) ==
    SelectSeq([k \in 1..Len(x.data) |-> k - 1], LAMBDA i : x.data[i + 1] = v)

\* np.unique(input, return_counts=True): the distinct values in ascending
\* order, and how often each occurs.
np_unique(x) ==
    LET un == SortedSeq({x.data[k] : k \in 1..Len(x.data)})
    IN  [un |-> un, cts |-> [i \in 1..Len(un) |-> Len(np_argwhere(x, un[i]))]]

\* np.argsort(l): the positions (0-based) of l in ascending order of value,
\* equal values in their original order (the sort is stable).
RECURSIVE argsort_from(_, _)
argsort_from(l, left) ==
    IF left = {} THEN <<>>
    ELSE LET m == CHOOSE i \in left :
                    \A j \in left : l[i + 1] < l[j + 1] \/ (l[i + 1] = l[j + 1] /\ i <= j)
         IN  <<m>> \o argsort_from(l, left \ {m})

\* An argsort that orders by decreasing value.
np_argsort_descending(l) ==
    LET neg == [i \in 1..Len(l) |-> -l[i]]
    IN  argsort_from(neg, 0..(Len(l) - 1))

np_argsort(l) == argsort_from(l, 0..(Len(l) - 1))

RECURSIVE Flatten(_)
Flatten(ss) == IF ss = <<>> THEN <<>> ELSE ss[1] \o Flatten(Tail(ss))

\* The (un, cts, SparseReduce) that sum_from_unique returns.
sum_from_unique(input, mean) ==
    LET u == np_unique(input)
        K == Len(u.un)
        un_idx == [i \in 1..K |-> np_argwhere(input, u.un[i])]
        l_arr == [i \in 1..K |-> Len(un_idx[i])]
        argsort == np_argsort(l_arr)
        un_sorted == [j \in 1..K |-> u.un[argsort[j] + 1]]
        cts_sorted == [j \in 1..K |-> u.cts[argsort[j] + 1]]
        un_idx_sorted == [j \in 1..K |-> un_idx[argsort[j] + 1]]
        l_sorted == [j \in 1..K |-> l_arr[argsort[j] + 1]]
        \* np.argwhere(l_sorted[:-1] - l_sorted[1:] != 0).flatten() + 1,
        \* with 0 in front and len(l_arr) at the end
        change == <<0>>
                  \o SelectSeq([j \in 1..(K - 1) |-> j],
                               LAMBDA j : l_sorted[j] - l_sorted[j + 1] # 0)
                  \o <<K>>
        el == [i \in 1..(Len(change) - 1) |->
                Arr(<<change[i + 1] - change[i], l_sorted[change[i] + 1]>>,
                    Flatten(SubSeq(un_idx_sorted, change[i] + 1, change[i + 1])))]
        sr == SparseReduce(el, mean, <<>>)
    IN  IF sr.kind = "raise" THEN sr
        ELSE [kind |-> "tuple", un |-> un_sorted, cts |-> cts_sorted, sr |-> sr.val]

(***************************************************************************)
(* Kmer.                                                                   *)
(***************************************************************************)
\* LinearReduce(A): the reduction that is left-multiplication by A.
LinearReduce(A) == [type |-> "LinearReduce", linear_map |-> A]

\* A.at[i, i : i + k].set(1.0) for i = from .. rows - 1, in turn
RECURSIVE Kmer_fill(_, _, _)
Kmer_fill(A, i, k) ==
    IF i >= A.shape[1] THEN A
    ELSE Kmer_fill(
            Arr(A.shape,
                [c \in 1..Len(A.data) |->
                    IF /\ (c - 1) \div A.shape[2] = i
                       /\ (c - 1) % A.shape[2] >= i
                       /\ (c - 1) % A.shape[2] < i + k
                    THEN FromInt(1) ELSE A.data[c]]),
            i + 1, k)

\* A / k, element by element
np_divide(A, k) == Arr(A.shape, [c \in 1..Len(A.data) |-> RDiv(A.data[c], k)])

\* Kmer that never averages.
Kmer_unaveraged(k, seq_length, average, output_format) ==
    IF seq_length < k \/ k <= 1 \/ seq_length <= 1 THEN Raise("ValueError")
    ELSE IF output_format \in {"linear", "binary"}
    THEN LET A == Kmer_fill(np_zeros(seq_length - k + 1, seq_length), 0, k)
         IN  IF output_format = "binary" THEN Array(A) ELSE Reduction(LinearReduce(A))
    ELSE IF output_format \in {"sparse", "index"}
    THEN LET index == Arr(<<seq_length - k + 1, k>>,
                          [c \in 1..((seq_length - k + 1) * k) |->
                              ((c - 1) \div k) + ((c - 1) % k)])
         IN  IF output_format = "index" THEN Array(index)
             ELSE SparseReduce(<<index>>, FALSE, <<>>)
    ELSE None

Kmer(k, seq_length, average, output_format) ==
    IF seq_length < k \/ k <= 1 \/ seq_length <= 1 THEN Raise("ValueError")
    ELSE IF output_format \in {"linear", "binary"}
    THEN LET A0 == Kmer_fill(np_zeros(seq_length - k + 1, seq_length), 0, k)
             A == IF average THEN np_divide(A0, k) ELSE A0
         IN  IF output_format = "binary" THEN Array(A) ELSE Reduction(LinearReduce(A))
    ELSE IF output_format \in {"sparse", "index"}
    THEN \* np.arange(seq_length - k + 1)[:, None] + np.arange(k)[None, :]
         LET index == Arr(<<seq_length - k + 1, k>>,
                          [c \in 1..((seq_length - k + 1) * k) |->
                              ((c - 1) \div k) + ((c - 1) % k)])
         IN  IF output_format = "index" THEN Array(index)
             ELSE SparseReduce(<<index>>, average, <<>>)
    ELSE None

(***************************************************************************)
(* Inputs.                                                                 *)
(***************************************************************************)
Constructed(S) == {o.val : o \in {x \in S : x.kind = "reduce"}}

Repeats == Constructed({Repeat(t) : t \in 0..MaxTimes})

TileViews == Constructed({TileView(l) : l \in 0..MaxResultLen})

\* All r x c matrices with entries in vals.
MatricesOf(r, c, vals) ==
    {Arr(<<r, c>>, d) : d \in [1..(r * c) -> {FromInt(v) : v \in vals}]}

Matrices ==
    UNION {MatricesOf(r, c, 0..MaxVal) : r \in 0..MaxRows, c \in 1..MaxCols}

\* The index blocks of exactly k cells: r >= 1 rows of g >= 0 indices into
\* the rows 0..MaxGramRows-1, a zero-width row counting as one cell.
BlocksOfCells(k) ==
    UNION {{Arr(<<r, g>>, d) : d \in [1..(r * g) -> 0..(MaxGramRows - 1)]} :
            <<r, g>> \in {s \in (1..k) \X (0..k) :
                            s[1] * (IF s[2] = 0 THEN 1 ELSE s[2]) = k}}

\* The lists of index blocks of exactly k cells in all.
RECURSIVE IdcsOfCells(_)
IdcsOfCells(k) ==
    IF k = 0 THEN {<<>>}
    ELSE UNION {{<<b>> \o rest : b \in BlocksOfCells(j), rest \in IdcsOfCells(k - j)} :
                    j \in 1..k}

AllIdcs == UNION {IdcsOfCells(k) : k \in 1..MaxIdxCells}

\* The largest index a list of blocks names (-1 when it names none).
Largest(idcs) ==
    LET named == UNION {{idcs[i].data[k] : k \in 1..Len(idcs[i].data)} : i \in 1..Len(idcs)}
    IN  IF named = {} THEN -1 ELSE MaxOf(named)

\* The SparseReduce objects: max_idx inferred (<<>>, Python's None), or given
\* (<<m>>) as "the maximum index in the input", which is at least every index
\* the blocks name.
SparseReduces ==
    Constructed(UNION {{SparseReduce(idcs, average, m) :
                            average \in BOOLEAN,
                            m \in {<<>>} \cup {<<x>> : x \in {y \in 0..(MaxGramRows - 1) :
                                                            y >= Largest(idcs)}}} :
                        idcs \in AllIdcs})

\* The Gram matrices SparseReduce is applied to: one per shape, with pairwise
\* different entries 1, 2, ... in row-major order.
Grams ==
    {Arr(<<r, c>>, [k \in 1..(r * c) |-> FromInt(k)]) :
        r \in 1..MaxGramRows, c \in 1..MaxGramCols}

\* 1-d arrays, which SparseReduce rejects.
Vectors == {Arr(<<r>>, [k \in 1..r |-> FromInt(k)]) : r \in 1..MaxGramRows}

\* The reductions passed as the right operand of R @ S.
Operands == Repeats \cup TileViews \cup
    Constructed({SparseReduce(idcs, average, <<>>) :
        idcs \in IdcsOfCells(1), average \in BOOLEAN})

(***************************************************************************)
(* Dispatch of R @ x, R.new_len(n), R.linmap(shape) on the class of R.     *)
(***************************************************************************)
MatMul(R, x) ==
    CASE R.type = "Repeat" -> Repeat_matmul(R, x)
      [] R.type = "TileView" -> TileView_matmul(R, x)
      [] R.type = "SparseReduce" -> SparseReduce_matmul(R, x)

new_len(R, n) ==
    CASE R.type = "Repeat" -> Repeat_new_len(R, n)
      [] R.type = "TileView" -> TileView_new_len(R, n)
      [] R.type = "SparseReduce" -> SparseReduce_new_len(R, n)

linmap(R, shape) ==
    CASE R.type = "TileView" -> TileView_linmap(R, shape)
      [] R.type = "SparseReduce" -> SparseReduce_linmap(R, shape)

(***************************************************************************)
(* RkhsVec and CombinationVec.                                             *)
(*                                                                         *)
(* The reductions Identity, NoReduce and Sum, the length query final_len   *)
(* and the kernels live outside the modelled files; they are modelled from  *)
(* their documented contracts.                                             *)
(***************************************************************************)
Identity == [type |-> "Identity"]

NoReduce == [type |-> "NoReduce"]

Sum == [type |-> "Sum"]

Mean == [type |-> "Mean"]

\* reduce.new_len(n) for the reductions a vector can carry
vec_new_len(R, n) ==
    CASE R.type \in {"Identity", "NoReduce"} -> Int_(n)
      [] R.type \in {"Sum", "Mean"} -> Int_(1)
      [] OTHER -> new_len(R, n)

\* reduce.final_len(n): the output length of the pending reduction
final_len(R, n) == vec_new_len(R, n)

\* reduce @ M for the reductions a vector can carry
vec_apply(R, M) ==
    CASE R.type \in {"Identity", "NoReduce"} -> Array(M)
      [] OTHER -> MatMul(R, M)

\* k.cross_covariance(X, Y): the len(X) x len(Y) Gram matrix; its entries
\* stand for kernel values, here 1 / (1 + lengthscale * (x - y)^2).
cross_covariance(k, X, Y) ==
    LET n == X.shape[1]
        m == Y.shape[1]
    IN  Arr(<<n, m>>,
            [c \in 1..(n * m) |->
                LET d == X.data[((c - 1) \div m) + 1][1] - Y.data[((c - 1) % m) + 1][1]
                IN  Rat(1, 1 + k.lengthscale * d * d)])

\* M.T of a 2-d array
np_transpose(M) ==
    LET r == M.shape[1]
        c == M.shape[2]
    IN  Arr(<<c, r>>,
            [k \in 1..(r * c) |-> M.data[((k - 1) % r) * c + ((k - 1) \div r) + 1]])

RkhsVec(insp_pts, k, reduce, transpose) ==
    [insp_pts |-> insp_pts, k |-> k, reduce |-> reduce, transpose |-> transpose]

RkhsVec_is_colvec(v) == ~v.transpose

RkhsVec_is_rowvec(v) == v.transpose

\* RkhsVec.size
RkhsVec_size(v) == final_len(v.reduce, v.insp_pts.shape[1]).val

\* RkhsVec.__len__: 1 for a row vector, the size for a column vector
RkhsVec_len(v) == IF v.transpose THEN 1 ELSE RkhsVec_size(v)

\* CombinationVec whose cached length is taken from the number of
\* concatenated inspection points instead of the members' common len().
CombinationVec_concatenated_len(rkhs_vecs, operator, reduce) ==
    LET orig_len == RkhsVec_len(rkhs_vecs[1])
        pts == np_concatenate([i \in 1..Len(rkhs_vecs) |-> rkhs_vecs[i].insp_pts])
    IN  IF \E i \in 1..Len(rkhs_vecs) : RkhsVec_len(rkhs_vecs[i]) # orig_len
        THEN Raise("ValueError")
        ELSE [kind |-> "vec",
              val |-> [type |-> "CombinationVec",
                       rkhs_vecs |-> rkhs_vecs,
                       operator |-> operator,
                       reduce |-> reduce,
                       len |-> vec_new_len(reduce, pts.shape[1]).val]]

\* CombinationVec with __post_init__: the members' len() must agree; the
\* length is cached.  The list the callers pass is taken as rkhs_vecs and the
\* reduction they pass as reduce (NoReduce when they pass none); the inherited
\* fields insp_pts, k and transpose play no part in __post_init__.
CombinationVec(rkhs_vecs, operator, reduce) ==
    LET orig_len == RkhsVec_len(rkhs_vecs[1])
    IN  IF \E i \in 1..Len(rkhs_vecs) : RkhsVec_len(rkhs_vecs[i]) # orig_len
        THEN Raise("ValueError")
        ELSE [kind |-> "vec",
              val |-> [type |-> "CombinationVec",
                       rkhs_vecs |-> rkhs_vecs,
                       operator |-> operator,
                       reduce |-> reduce,
                       len |-> vec_new_len(reduce, orig_len).val]]

\* CombinationVec.insp_pts
CombinationVec_insp_pts(c) ==
    np_concatenate([i \in 1..Len(c.rkhs_vecs) |-> c.rkhs_vecs[i].insp_pts])

\* CombinationVec.size: the length cached by __post_init__
CombinationVec_size(c) == c.len

\* SumVec = partial(CombinationVec, operator=jnp.add)
SumVec(rkhs_vecs, reduce) == CombinationVec(rkhs_vecs, "add", reduce)

\* ProductVec = partial(CombinationVec, operator=jnp.multiply)
ProductVec(rkhs_vecs, reduce) == CombinationVec(rkhs_vecs, "multiply", reduce)

\* __pairwise_dot__ without the comparison of the kernels.
RkhsVec_pairwise_dot_unchecked(a, b) ==
    LET raw_gram == cross_covariance(a.k, a.insp_pts, b.insp_pts)
        inner == vec_apply(b.reduce, np_transpose(raw_gram))
    IN  IF inner.kind = "raise" THEN inner
        ELSE vec_apply(a.reduce, np_transpose(inner.val))

\* RkhsVec.__pairwise_dot__: self.reduce @ (other.reduce @ raw_gram.T).T
RkhsVec_pairwise_dot(a, b) ==
    IF a.k # b.k THEN Raise("TypeError")
    ELSE LET raw_gram == cross_covariance(a.k, a.insp_pts, b.insp_pts)
             inner == vec_apply(b.reduce, np_transpose(raw_gram))
         IN  IF inner.kind = "raise" THEN inner
             ELSE vec_apply(a.reduce, np_transpose(inner.val))

\* RkhsVec.__tensor_prod__
RkhsVec_tensor_prod(a, b) ==
    IF RkhsVec_size(a) # RkhsVec_size(b) THEN Raise("ValueError")
    ELSE ProductVec(<<a, b>>, Sum)

\* RkhsVec.__matmul__
RkhsVec_matmul(a, b) ==
    IF RkhsVec_is_rowvec(a) = RkhsVec_is_rowvec(b) THEN Raise("ValueError")
    ELSE IF RkhsVec_is_rowvec(a) /\ RkhsVec_is_colvec(b) THEN RkhsVec_pairwise_dot(a, b)
    ELSE IF RkhsVec_is_colvec(a) /\ RkhsVec_is_rowvec(b) THEN RkhsVec_tensor_prod(a, b)
    ELSE Raise("ValueError")

\* RkhsVec.__add__
RkhsVec_add(a, b) == SumVec(<<a, b>>, NoReduce)

\* RkhsVec.__mul__
RkhsVec_mul(a, b) == ProductVec(<<a, b>>, NoReduce)

\* RkhsVec.shape
RkhsVec_shape(v) ==
    IF v.transpose THEN <<1, RkhsVec_size(v)>> ELSE <<RkhsVec_size(v), 1>>

NotImplemented == [kind |-> "NotImplemented"]

Vec(v) == [kind |-> "vec", val |-> v]

\* Repeat.__matmul__ handed an RkhsVec: a vector is no AbstractReduce, so
\* np.repeat(inp, self.times, 0) is called on an object that is no array.
Repeat_matmul_vec(R, v) == Raise("TypeError")

\* TileView.__matmul__ handed an RkhsVec: inp.shape is the vector's shape
\* property; past the divisibility check tile_view calls inp.ravel(), which
\* a vector does not have.
TileView_matmul_vec(R, v) ==
    IF R.result_len % RkhsVec_shape(v)[1] # 0 THEN Raise("ValueError")
    ELSE Raise("AttributeError")

\* The loop of SparseReduce.__matmul__ over an RkhsVec, from block i on: a
\* zero-width block appends zeros, any other block subscripts inp, which a
\* vector does not support.
RECURSIVE SparseReduce_matmul_vec_loop(_, _, _, _)
SparseReduce_matmul_vec_loop(R, v, i, rval) ==
    IF i > Len(R.idcs) THEN Array(np_concatenate(rval))
    ELSE IF R.idcs[i].shape[2] = 0
    THEN SparseReduce_matmul_vec_loop(R, v, i + 1,
            Append(rval, np_zeros(R.idcs[i].shape[1], RkhsVec_shape(v)[2])))
    ELSE Raise("TypeError")

\* SparseReduce.__matmul__ handed an RkhsVec: len(inp) is the vector's
\* __len__ and inp.shape its shape property, of length 2.
SparseReduce_matmul_vec(R, v) ==
    IF R.max_idx + 1 > RkhsVec_len(v) THEN Raise("ValueError")
    ELSE IF Len(RkhsVec_shape(v)) # 2 THEN Raise("ValueError")
    ELSE SparseReduce_matmul_vec_loop(R, v, 1, <<>>)

\* Sum.__matmul__ and Mean.__matmul__ handed an RkhsVec: they leave the
\* operation to the vector.
Base_matmul_vec(R, v) == NotImplemented

\* other @ self.reduce for a reduction other
reduce_matmul_reduce(other, r) ==
    CASE other.type \in {"Sum", "Mean"} -> Reduction(ChainedReduce(<<other, r>>))
      [] OTHER -> MatMul(other, r)

\* RkhsVec.__rmatmul__
RkhsVec_rmatmul(v, other) ==
    IF IsReduce(other)
    THEN LET chained == reduce_matmul_reduce(other, v.reduce)
         IN  IF chained.kind = "raise" THEN chained
             ELSE Vec(RkhsVec(v.insp_pts, v.k, chained.val, v.transpose))
    ELSE RkhsVec_matmul(v, other)

\* The expression R @ v for a reduction R and a vector v: R.__matmul__(v)
\* is tried first, and v.__rmatmul__(R) only if that returns NotImplemented.
reduce_at_vec(R, v) ==
    LET first == CASE R.type = "Repeat" -> Repeat_matmul_vec(R, v)
                   [] R.type = "TileView" -> TileView_matmul_vec(R, v)
                   [] R.type = "SparseReduce" -> SparseReduce_matmul_vec(R, v)
                   [] OTHER -> Base_matmul_vec(R, v)
    IN  IF first = NotImplemented THEN RkhsVec_rmatmul(v, R) ELSE first

\* RkhsVec.sum
RkhsVec_sum(v) == reduce_at_vec(Sum, v)

\* RkhsVec.mean
RkhsVec_mean(v) == reduce_at_vec(Mean, v)

(***************************************************************************)
(* Actions: one call each.                                                 *)
(***************************************************************************)
Call(op, x, r) ==
    /\ pc = "ready"
    /\ pc' = op
    /\ inp' = x
    /\ ret' = r
    /\ UNCHANGED self

\* Repeat(times) @ M
RepeatMatMul ==
    /\ pc = "ready"
    /\ self.type = "Repeat"
    /\ \E M \in Matrices : Call("matmul", M, MatMul(self, M))

\* TileView(result_len) @ M
TileViewMatMul ==
    /\ pc = "ready"
    /\ self.type = "TileView"
    /\ \E M \in Matrices : Call("matmul", M, MatMul(self, M))

\* R @ S for a Repeat or TileView R and a reduction S
TileChain ==
    /\ pc = "ready"
    /\ self.type \in {"Repeat", "TileView"}
    /\ \E S \in Repeats \cup TileViews : Call("matmul", S, MatMul(self, S))

InitTile ==
    /\ pc = "ready"
    /\ self \in Repeats \cup TileViews
    /\ inp = None
    /\ ret = None

NextTile == RepeatMatMul \/ TileViewMatMul \/ TileChain

SpecTile == InitTile /\ [][NextTile]_vars

\* SparseReduce @ M
SparseMatMul ==
    /\ pc = "ready"
    /\ self.type = "SparseReduce"
    /\ \E M \in Grams \cup Vectors : Call("matmul", M, MatMul(self, M))

\* R @ S for any of the three reductions R and a reduction S
Chain ==
    /\ pc = "ready"
    /\ IsReduce(self)
    /\ \E S \in Operands : Call("matmul", S, MatMul(self, S))

\* Repeat / TileView @ a Gram matrix
ViewMatMul ==
    /\ pc = "ready"
    /\ self.type \in {"Repeat", "TileView"}
    /\ \E M \in Grams : Call("matmul", M, MatMul(self, M))

Init ==
    /\ pc = "ready"
    /\ self \in Repeats \cup TileViews \cup SparseReduces
    /\ inp = None
    /\ ret = None

Next == ViewMatMul \/ SparseMatMul \/ Chain

Spec == Init /\ [][Next]_vars

(***************************************************************************)
(* sum_from_unique, then the reduction it built applied to its input.      *)
(***************************************************************************)
Inputs1d ==
    UNION {{Arr(<<n>>, d) : d \in [1..n -> {FromInt(v) : v \in 0..MaxUVal}]} :
            n \in 1..MaxLen}

\* un, cts, sr = SparseReduce.sum_from_unique(input, mean)
SumFromUnique ==
    /\ pc = "ready"
    /\ pc' = "sum_from_unique"
    /\ ret' = sum_from_unique(inp.input, inp.mean)
    /\ UNCHANGED <<self, inp>>

\* sr @ input.reshape(-1, 1)
ApplyUnique ==
    /\ pc = "sum_from_unique"
    /\ ret.kind = "tuple"
    /\ pc' = "applied"
    /\ self' = ret.sr
    /\ ret' = [kind |-> "roundtrip", un |-> ret.un, cts |-> ret.cts, sr |-> ret.sr,
               out |-> MatMul(ret.sr, reshape(inp.input, <<Len(inp.input.data), 1>>).val)]
    /\ UNCHANGED inp

InitUnique ==
    /\ pc = "ready"
    /\ self = None
    /\ inp \in [input : Inputs1d, mean : BOOLEAN]
    /\ ret = None

NextUnique == SumFromUnique \/ ApplyUnique

SpecUnique == InitUnique /\ [][NextUnique]_vars

(***************************************************************************)
(* Kmer.                                                                   *)
(***************************************************************************)
KmerCall ==
    /\ pc = "ready"
    /\ pc' = "Kmer"
    /\ ret' = Kmer(inp.k, inp.seq_length, inp.average, inp.output_format)
    /\ UNCHANGED <<self, inp>>

InitKmer ==
    /\ pc = "ready"
    /\ self = None
    /\ inp \in [k : 0..MaxK, seq_length : 0..MaxSeq, average : BOOLEAN,
                output_format : {"linear", "binary", "sparse", "index", "matrix"}]
    /\ ret = None

NextKmer == KmerCall

SpecKmer == InitKmer /\ [][NextKmer]_vars

(***************************************************************************)
(* RKHS vectors: a @ b, a + b, a * b.                                      *)
(***************************************************************************)
Kernels == {[type |-> "RBF", lengthscale |-> l] : l \in 1..MaxKernels}

\* n inspection points 1, ..., n, one coordinate each
Points(n) == Arr(<<n, 1>>, [k \in 1..n |-> FromInt(k)])

RkhsVecs ==
    {RkhsVec(Points(n), k, r, t) :
        n \in 1..MaxPts, k \in Kernels,
        r \in {Identity} \cup Repeats \cup TileViews, t \in BOOLEAN}

\* a @ b
VecMatMul ==
    /\ pc = "ready"
    /\ self \in RkhsVecs
    /\ \E b \in RkhsVecs : Call("matmul", b, RkhsVec_matmul(self, b))

\* a + b
VecAdd ==
    /\ pc = "ready"
    /\ self \in RkhsVecs
    /\ \E b \in RkhsVecs : Call("add", b, RkhsVec_add(self, b))

\* a * b
VecMul ==
    /\ pc = "ready"
    /\ self \in RkhsVecs
    /\ \E b \in RkhsVecs : Call("mul", b, RkhsVec_mul(self, b))

\* The reductions put in front of a vector
VecReducers ==
    {Sum, Mean} \cup Operands \cup
    Constructed({SparseReduce(idcs, average, <<m>>) :
        idcs \in IdcsOfCells(1), average \in BOOLEAN, m \in 0..(MaxPts - 1)})

\* R @ v
VecRMatMul ==
    /\ pc = "ready"
    /\ self \in RkhsVecs
    /\ \E R \in VecReducers : Call("rmatmul", R, reduce_at_vec(R, self))

\* v.sum()
VecSum ==
    /\ pc = "ready"
    /\ self \in RkhsVecs
    /\ Call("sum", None, RkhsVec_sum(self))

\* v.mean()
VecMean ==
    /\ pc = "ready"
    /\ self \in RkhsVecs
    /\ Call("mean", None, RkhsVec_mean(self))

\* The reductions handed to a combination
CombinationReduces == {NoReduce, Sum} \cup Repeats

\* CombinationVec([a, b], operator, reduce)
VecCombine ==
    /\ pc = "ready"
    /\ self \in RkhsVecs
    /\ \E b \in RkhsVecs, operator \in {"add", "multiply"}, r \in CombinationReduces :
            Call("combine", b, CombinationVec(<<self, b>>, operator, r))

InitVec ==
    /\ pc = "ready"
    /\ self \in RkhsVecs
    /\ inp = None
    /\ ret = None

NextVec ==
    VecMatMul \/ VecAdd \/ VecMul \/ VecRMatMul \/ VecSum \/ VecMean \/ VecCombine

SpecVec == InitVec /\ [][NextVec]_vars

(***************************************************************************)
(* Properties.                                                             *)
(***************************************************************************)
\* A reduction was applied to a 2-d matrix.
Applied == pc = "matmul" /\ ~IsReduce(inp) /\ Len(inp.shape) = 2

\* C1: whenever R @ M succeeds on a 2-d matrix M of n rows, the number of
\* rows of the result equals R.new_len(n).
C1_RowsEqualNewLen ==
    (Applied /\ ret.kind = "array")
        => new_len(self, inp.shape[1]) = Int_(ret.val.shape[1])

\* C2: whenever a linearizable R @ M succeeds on a 2-d matrix M,
\* R.linmap(M.shape) succeeds too and R @ M = R.linmap(M.shape) @ M.
C2_LinmapAgrees ==
    (Applied /\ self.type \in {"TileView", "SparseReduce"} /\ ret.kind = "array")
        => /\ linmap(self, inp.shape).kind = "array"
           /\ np_matmul(linmap(self, inp.shape).val, inp) = ret

\* C3: R @ S for a reduction S returns ChainedReduce([R, S]) and raises
\* nothing.
C3_ChainDeferred ==
    (pc = "matmul" /\ IsReduce(inp))
        => ret = Reduction(ChainedReduce(<<self, inp>>))

\* C4 as stated: Repeat(times) @ M has n * times rows and output row i is
\* input row i mod n (whole copies of M back-to-back).
C4_RepeatBackToBack ==
    (Applied /\ self.type = "Repeat")
        => /\ ret.kind = "array"
           /\ ret.val.shape = <<inp.shape[1] * self.times, inp.shape[2]>>
           /\ \A i \in 0..(inp.shape[1] * self.times - 1) :
                Row(ret.val, i) = Row(inp, i % inp.shape[1])

\* C4 as amended: Repeat(times) @ M has n * times rows and output row i is
\* input row i div times (each row repeated `times` times in place).
C4_RepeatInPlace ==
    (Applied /\ self.type = "Repeat")
        => /\ ret.kind = "array"
           /\ ret.val.shape = <<inp.shape[1] * self.times, inp.shape[2]>>
           /\ \A i \in 0..(inp.shape[1] * self.times - 1) :
                Row(ret.val, i) = Row(inp, i \div self.times)

\* A Repeat was applied to a matrix whose first two rows differ.
C4_Witness ==
    /\ Applied /\ self.type = "Repeat" /\ ret.kind = "array"
    /\ self.times > 1
    /\ inp.shape[1] >= 2
    /\ Row(inp, 0) # Row(inp, 1)

\* C5: TileView(result_len) @ M, for a 2-d M of n rows: when n divides
\* result_len the result has result_len rows and output row i is input row
\* i mod n; otherwise the call raises and returns no matrix.
C5_TileView ==
    (Applied /\ self.type = "TileView")
        => IF inp.shape[1] # 0 /\ self.result_len % inp.shape[1] = 0
           THEN /\ ret.kind = "array"
                /\ ret.val.shape = <<self.result_len, inp.shape[2]>>
                /\ \A i \in 0..(self.result_len - 1) :
                     Row(ret.val, i) = Row(inp, i % inp.shape[1])
           ELSE ret.kind = "raise"

\* A TileView made at least two copies of a matrix whose first two rows
\* differ.
C5_Witness ==
    /\ Applied /\ self.type = "TileView" /\ ret.kind = "array"
    /\ inp.shape[1] >= 2
    /\ self.result_len >= 2 * inp.shape[1]
    /\ Row(inp, 0) # Row(inp, 1)

\* The number of index rows of the blocks before block b (1-based).
RowsBefore(idcs, b) == RSum([j \in 1..(b - 1) |-> FromInt(idcs[j].shape[1])])[1]

\* C6: SparseReduce @ M, for a 2-d M of at least max_idx + 1 rows, has one
\* output row per index row, block after block and row after row: the mean
\* (average) or the sum (otherwise) of the input rows the index row names,
\* and an all-zero row for an index row of a zero-width block.
C6_SparseRows ==
    (Applied /\ self.type = "SparseReduce" /\ inp.shape[1] >= self.max_idx + 1)
        => /\ ret.kind = "array"
           /\ ret.val.shape = <<RowsBefore(self.idcs, Len(self.idcs) + 1), inp.shape[2]>>
           /\ \A b \in 1..Len(self.idcs) :
                \A q \in 0..(self.idcs[b].shape[1] - 1) :
                    \A col \in 1..inp.shape[2] :
                        LET g == self.idcs[b].shape[2]
                            total == RSum([t \in 1..g |->
                                        Row(inp, self.idcs[b].data[q * g + t])[col]])
                            out == Row(ret.val, RowsBefore(self.idcs, b) + q)[col]
                        IN  out = IF g = 0 THEN FromInt(0)
                                  ELSE IF self.average THEN RDiv(total, g)
                                  ELSE total

\* An averaging SparseReduce with a zero-width block and a block of groups of
\* two or more rows was applied.
C6_Witness ==
    /\ Applied /\ self.type = "SparseReduce" /\ ret.kind = "array"
    /\ self.average
    /\ \E b \in 1..Len(self.idcs) : self.idcs[b].shape[2] = 0
    /\ \E b \in 1..Len(self.idcs) :
        /\ self.idcs[b].shape[2] >= 2
        /\ self.idcs[b].data[1] # self.idcs[b].data[2]

\* The number of entries of x equal to v.
Multiplicity(x, v) == Cardinality({k \in 1..Len(x.data) : x.data[k] = v})

\* C7: (un, cts, R) = sum_from_unique(x, mean) for a non-empty 1-d x: un holds
\* each distinct value of x once, by non-decreasing multiplicity; cts[j] is the
\* multiplicity of un[j]; the values of one multiplicity share one index block
\* of R, one row each, holding the positions of that value; and R applied to
\* x as a column has row j equal to un[j] (mean) or un[j] * cts[j] (sum).
C7_SumFromUnique ==
    (pc \in {"sum_from_unique", "applied"})
        => LET x == inp.input
               K == Len(ret.un)
               mults == {ret.cts[j] : j \in 1..K}
           IN  /\ ret.kind \in {"tuple", "roundtrip"}
               /\ {ret.un[j] : j \in 1..K} = {x.data[k] : k \in 1..Len(x.data)}
               /\ \A i, j \in 1..K : i # j => ret.un[i] # ret.un[j]
               /\ Len(ret.cts) = K
               /\ \A j \in 1..K : ret.cts[j] = Multiplicity(x, ret.un[j])
               /\ \A j \in 1..(K - 1) : ret.cts[j] <= ret.cts[j + 1]
               /\ ret.sr.type = "SparseReduce"
               /\ ret.sr.average = inp.mean
               /\ Len(ret.sr.idcs) = Cardinality(mults)
               /\ \A b \in 1..Len(ret.sr.idcs) :
                    LET blk == ret.sr.idcs[b]
                        first == RowsBefore(ret.sr.idcs, b)
                    IN  /\ Len(blk.shape) = 2
                        /\ blk.shape[1] =
                            Cardinality({j \in 1..K : ret.cts[j] = blk.shape[2]})
                        /\ \A q \in 0..(blk.shape[1] - 1) :
                            /\ ret.cts[first + q + 1] = blk.shape[2]
                            /\ {blk.data[q * blk.shape[2] + t] : t \in 1..blk.shape[2]}
                                = {k - 1 : k \in {i \in 1..Len(x.data) :
                                                    x.data[i] = ret.un[first + q + 1]}}
               /\ pc = "applied" =>
                    /\ ret.out.kind = "array"
                    /\ ret.out.val.shape = <<K, 1>>
                    /\ \A j \in 1..K :
                        ret.out.val.data[j] =
                            IF inp.mean THEN ret.un[j]
                            ELSE RMul(ret.un[j], FromInt(ret.cts[j]))

\* The round trip ran on an input with values of two different
\* multiplicities, two of them sharing the larger one, in sum mode.
C7_Witness ==
    /\ pc = "applied"
    /\ ~inp.mean
    /\ Len(ret.sr.idcs) >= 2
    /\ \E b \in 1..Len(ret.sr.idcs) :
        ret.sr.idcs[b].shape[1] >= 2 /\ ret.sr.idcs[b].shape[2] >= 2
    /\ ret.out.kind = "array"

\* The (seq_length - k + 1) x seq_length matrix with w in the cells (i, j),
\* i <= j < i + k, and 0 elsewhere.
Band(k, seq_length, w) ==
    Arr(<<seq_length - k + 1, seq_length>>,
        [c \in 1..((seq_length - k + 1) * seq_length) |->
            LET i == (c - 1) \div seq_length
                j == (c - 1) % seq_length
            IN  IF i <= j /\ j < i + k THEN w ELSE FromInt(0)])

C9_InnerProductGuards ==
    (pc = "matmul")
        => /\ self.transpose = inp.transpose => ret.kind = "raise"
           /\ (self.transpose /\ ~inp.transpose /\ self.k # inp.k) => ret.kind = "raise"
           /\ ret.kind = "array" => (self.transpose /\ ~inp.transpose /\ self.k = inp.k)

\* A row vector met a column vector of the same size and another kernel, with
\* no pending reduction that could fail on its own.
C9_Witness ==
    /\ pc = "matmul"
    /\ self.transpose /\ ~inp.transpose
    /\ self.k # inp.k
    /\ self.reduce = Identity /\ inp.reduce = Identity
    /\ RkhsVec_size(self) = RkhsVec_size(inp)
    /\ ret = Raise("TypeError")

\* A combination was attempted: a + b, a * b, or column @ row.
Combining ==
    \/ pc \in {"add", "mul"}
    \/ pc = "matmul" /\ ~self.transpose /\ inp.transpose

\* C10: combining two vectors of unequal kernels or unequal sizes fails at
\* construction, whatever their orientations.
C10_CombinationGuards ==
    (Combining /\ (self.k # inp.k \/ RkhsVec_size(self) # RkhsVec_size(inp)))
        => ret.kind = "raise"

\* C11: a column vector a and a row vector b of equal size always combine:
\* a @ b is a ProductVec with members [a, b], operator multiply and
\* reduction Sum, and no Gram matrix is computed.
C11_TensorProduct ==
    (pc = "matmul" /\ ~self.transpose /\ inp.transpose
        /\ RkhsVec_size(self) = RkhsVec_size(inp))
        => /\ ret.kind = "vec"
           /\ ret.val.type = "CombinationVec"
           /\ ret.val.rkhs_vecs = <<self, inp>>
           /\ ret.val.operator = "multiply"
           /\ ret.val.reduce = Sum

\* The vector v with the reduction R chained in front of its own.
Precomposed(R, v) ==
    Vec(RkhsVec(v.insp_pts, v.k, ChainedReduce(<<R, v.reduce>>), v.transpose))

\* C12: for every reduction R and every vector v, R @ v is a new vector
\* with R chained in front of v's reduction and v's inspection points,
\* kernel and orientation, v itself staying as it was; sum() and mean() are
\* this operation with R = Sum and R = Mean.
C12_Precomposition ==
    /\ pc = "rmatmul" => ret = Precomposed(inp, self)
    /\ pc = "sum" => ret = Precomposed(Sum, self)
    /\ pc = "mean" => ret = Precomposed(Mean, self)

\* A CombinationVec of self and inp was constructed.
Combined ==
    /\ pc \in {"add", "mul", "matmul", "combine"}
    /\ ret.kind = "vec"

====
